---- MODULE Spec2Model ----
(***************************************************************************)
(* Observatory: the clock service (TimeServiceImpl), the location service  *)
(* (LocationServiceImpl), the time-travel controller (useTimeTravel) and   *)
(* the geodesy helpers of the location service, as state machines.         *)
(*                                                                         *)
(* The useLocation and useAstronomy hooks and the ephemeris calls of        *)
(* AstronomicalService follow.                                             *)
(*                                                                         *)
(* TimeService, LocationService and useTimeTravel are independent objects  *)
(* that share no field: `component` names the one a behaviour drives, and  *)
(* the variables of the others keep their constructed values.              *)
(*                                                                         *)
(* Angles are fixed-point integers in 1/Scale degree, instants are whole   *)
(* seconds of wall-clock time.  The Cartesian and easting/northing fields  *)
(* of the coordinate frame (floating-point trigonometry) and the           *)
(* DateTime stamps of LocationService (lastUpdate, timestamp) are not      *)
(* represented.                                                            *)
(***************************************************************************)
EXTENDS Integers, Sequences, FiniteSets, TLC

\* ---------------------------------------------------------------- bounds
\* most useLocation handlers awaiting a service promise at once
MaxHookPending == 2
\* last hour of UTC time explored for the useAstronomy hook
MaxHours == 60
\* last day, counted from day 0, on which the ephemeris has an eclipse
MaxDay == 5
\* longest subscribers array explored
MaxSubs == 2
\* last wall-clock second explored
MaxNow == 2
\* most geolocation watches started by enableGPS in one behaviour
MaxWatches == 2
\* most getCurrentPosition requests in flight at once
MaxPending == 1
\* most astronomical updates awaiting their continuation at once
MaxAstroQueue == 2

\* ---------------------------------------------------------------- inputs
Scale == 10 ^ 4
Callbacks == {"cbA", "cbB"}
Timezones == {"UTC", "America/New_York"}
Offsets == {0, 10, 30}
\* (latitude, longitude) pairs given to TimeService.setLocation
TimeLocations == {<<0, 0>>, <<0, 15 * Scale>>}
\* (latitude, longitude, altitude) triples given to LocationService.setLocation:
\* New York, Sydney, and the four out-of-range inputs of the tests
LocationInputs ==
    { <<407128, -740060, 0>>, <<-338688, 1512093, 10>>,
      <<91 * Scale, 0, 0>>, <<-91 * Scale, 0, 0>>, <<0, 181 * Scale, 0>>, <<0, -181 * Scale, 0>> }
\* position.coords delivered by the geolocation provider; altitude is <<>> when null
GpsFixes ==
    { [latitude |-> 407128, longitude |-> -740060, altitude |-> <<>>],
      [latitude |-> -338688, longitude |-> 1512093, altitude |-> <<10>>] }
NodeEnvs == {"test", "production"}
\* instants handed to setTime and jumpToTime
Instants == 0..MaxNow
\* the grid of setLocation inputs for the geodesy helpers: every whole degree of longitude
\* from one beyond each limit to the other, the half-hour meridians, the test sites
GeoLongitudes ==
    {d * Scale : d \in -181..181}
        \cup {-740060, 1396503, 1512093, 75000, 74999, -75000, -75001, 1799999, -1799999}
GeoLatitudes == {-91 * Scale, -90 * Scale, -338688, -1, 0, 356762, 407128, 90 * Scale, 91 * Scale}
Null == [null |-> TRUE]

VARIABLES
    component,        \* the object a behaviour drives: "time", "location", "timeTravel", ...
    now,              \* wall clock read by DateTime.now()
    tsState,          \* TimeServiceImpl.state
    tsSubscribers,    \* TimeServiceImpl.subscribers
    tsTimer,          \* TRUE while the setInterval of startTimeUpdate is registered
    subStatus,        \* history: per callback "never" | "subscribed" | "removed" | "destroyed"
    lastOp,           \* history: the operation that produced this state
    writes,           \* history: the states assigned to `state` by lastOp, in order
    calls,            \* history: the callback invocations made by lastOp, in order
    lsState,          \* LocationServiceImpl.state
    lsSubscribers,    \* LocationServiceImpl.subscribers
    watchId,          \* LocationServiceImpl.watchId, 0 when undefined
    geoSupported,     \* navigator.geolocation is defined
    nodeEnv,          \* process.env.NODE_ENV
    watches,          \* ids of the watches registered with navigator.geolocation
    nextWatchId,      \* the id the next watchPosition call returns
    pendingPositions, \* getCurrentPosition requests not answered yet
    astroQueue,       \* astronomical positions awaited by updateAstronomicalPosition, oldest first
    ttCurrentTime,    \* useTimeTravel: currentTime
    ttIsLiveMode,     \* useTimeTravel: isLiveMode
    ttInterval,       \* useTimeTravel: TRUE while the effect's setInterval is registered
    ttEffectFor,      \* useTimeTravel: the mode the interval effect last ran for, "none" before it ran
    lastTick,         \* history: the instants stored by the last two clock ticks fired in live mode
    geoFailed,        \* history: a geolocation request of this service has been rejected
    returned,         \* AstronomicalService: the last call, what the ephemeris did and what came back
    ulState,          \* useLocation: state, the copy of the service state the hook renders
    ulError,          \* useLocation: error, <<>> when null
    ulIsLoading,      \* useLocation: isLoading
    ulCalled,         \* history: the service method the last useLocation handler called, "none" if none
    ulPending,        \* useLocation: outcomes of the service promises its handlers await, oldest first
    uaUtcTime,        \* useAstronomy: utcTime of useTime, in whole hours
    uaLocation,       \* useAstronomy: location of useLocation is not null
    uaLastUpdated,    \* useAstronomy: lastUpdated, <<>> when null
    uaError,          \* useAstronomy: error, <<>> when null
    uaEclipsesAt      \* history: utcTime of the run that last stored upcomingEclipses, <<>> if none

locVars ==
    <<lsState, lsSubscribers, watchId, geoSupported, geoFailed, nodeEnv, watches, nextWatchId,
      pendingPositions, astroQueue>>

ulVars == <<ulState, ulError, ulIsLoading, ulCalled, ulPending>>

uaVars == <<uaUtcTime, uaLocation, uaLastUpdated, uaError, uaEclipsesAt>>

ttVars == <<ttCurrentTime, ttIsLiveMode, ttInterval, ttEffectFor>>

vars == <<component, now, tsState, tsSubscribers, tsTimer, subStatus, lastOp, writes, calls, locVars,
          ttVars, lastTick, returned, ulVars, uaVars>>

timeVars == <<tsState, tsSubscribers, tsTimer>>

\* the last element of log and the new instant
LastTwo(log, instant) == IF log = <<>> THEN <<instant>> ELSE <<log[Len(log)], instant>>

Op(name, result) == [name |-> name, result |-> result]

\* ---------------------------------------------------------------- subscription bus
\* a forEach that walks the array from its end
notifyReversed(subs, st) == [i \in 1..Len(subs) |-> [cb |-> subs[Len(subs) + 1 - i], st |-> st]]

\* subscribers.forEach(callback => callback(state))
notifySubscribers(subs, st) == [i \in 1..Len(subs) |-> [cb |-> subs[i], st |-> st]]

\* a subscribe that only pushes
subscribeWithoutCall(st, subs, callback) == [subscribers |-> Append(subs, callback), calls |-> <<>>]

\* a subscribe that keeps one registration per callback
subscribeUnlessPresent(st, subs, callback) ==
    [subscribers |-> IF \E i \in 1..Len(subs) : subs[i] = callback
                     THEN subs ELSE Append(subs, callback),
     calls |-> <<[cb |-> callback, st |-> st]>>]

\* subscribe(callback): push, then the immediate call with the current state
subscribe(st, subs, callback) ==
    [subscribers |-> Append(subs, callback), calls |-> <<[cb |-> callback, st |-> st]>>]

\* a removal by splice(indexOf(callback), 1): the first registration only
removeFirstOccurrence(subs, callback) ==
    IF \E i \in 1..Len(subs) : subs[i] = callback
    THEN LET k == CHOOSE i \in 1..Len(subs) :
                      subs[i] = callback /\ \A j \in 1..(i - 1) : subs[j] # callback
         IN  SubSeq(subs, 1, k - 1) \o SubSeq(subs, k + 1, Len(subs))
    ELSE subs

\* subscribers.filter(cb => cb !== callback)
removeCallback(subs, callback) == SelectSeq(subs, LAMBDA c : c # callback)

\* a destroy that leaves the subscribers array as it is
keepSubscribers(subs) == subs

\* destroy: this.subscribers = []
clearSubscribers(subs) == <<>>

\* ---------------------------------------------------------------- TimeService
TimeServiceInit ==
    [currentTime |-> now, timezone |-> "UTC", offset |-> 0, longitude |-> 0, latitude |-> 0]

\* a tick that stores the wall clock plus the manual offset
Time_tickStateWithOffset(st, clock) == [st EXCEPT !.currentTime = clock + 60 * st.offset]

\* the setInterval callback of startTimeUpdate
Time_tickState(st, clock) == [st EXCEPT !.currentTime = clock]

Time_tick ==
    /\ component = "time"
    /\ tsTimer
    /\ tsState' = Time_tickState(tsState, now)
    /\ writes' = <<tsState'>>
    /\ calls' = notifySubscribers(tsSubscribers, tsState')
    /\ lastOp' = Op("tick", "ok")
    /\ lastTick' = LastTwo(lastTick, tsState'.currentTime)
    /\ UNCHANGED <<component, returned, ulVars, uaVars, now, tsSubscribers, tsTimer, subStatus, locVars,
                   ttVars>>

Time_getCurrentTime(st) == st.currentTime + 60 * st.offset

\* getUTCTime: getCurrentTime().toUTC(), the same instant with the zone set to UTC
Time_getUTCTime(st) == [ts |-> Time_getCurrentTime(st), zone |-> "UTC"]

\* a timezone change that also replaces the manual offset by a zone offset
Time_withTimezoneAndZoneOffset(st, timezone) ==
    [st EXCEPT !.timezone = timezone, !.offset = IF timezone = "UTC" THEN 0 ELSE 10]

\* { ...this.state, timezone }
Time_withTimezone(st, timezone) == [st EXCEPT !.timezone = timezone]

Time_setTimezone(timezone) ==
    /\ component = "time"
    /\ tsState' = Time_withTimezone(tsState, timezone)
    /\ writes' = <<tsState'>>
    /\ calls' = notifySubscribers(tsSubscribers, tsState')
    /\ lastOp' = Op("setTimezone", "ok")
    /\ UNCHANGED <<component, returned, ulVars, uaVars, now, tsSubscribers, tsTimer, subStatus, locVars,
                   ttVars, lastTick>>

\* an offset change that adds the minutes to the offset in force
Time_withOffsetAdded(st, minutes) == [st EXCEPT !.offset = st.offset + minutes]

\* { ...this.state, offset: minutes }
Time_withOffset(st, minutes) == [st EXCEPT !.offset = minutes]

Time_setOffset(minutes) ==
    /\ component = "time"
    /\ tsState' = Time_withOffset(tsState, minutes)
    /\ writes' = <<tsState'>>
    /\ calls' = notifySubscribers(tsSubscribers, tsState')
    /\ lastOp' = Op("setOffset", "ok")
    /\ UNCHANGED <<component, returned, ulVars, uaVars, now, tsSubscribers, tsTimer, subStatus, locVars,
                   ttVars, lastTick>>

Time_setLocation(latitude, longitude) ==
    /\ component = "time"
    /\ tsState' = [tsState EXCEPT !.latitude = latitude, !.longitude = longitude]
    /\ writes' = <<tsState'>>
    /\ calls' = notifySubscribers(tsSubscribers, tsState')
    /\ lastOp' = Op("setLocation", "ok")
    /\ UNCHANGED <<component, returned, ulVars, uaVars, now, tsSubscribers, tsTimer, subStatus, locVars,
                   ttVars, lastTick>>

Time_subscribe(callback) ==
    /\ component = "time"
    /\ Len(tsSubscribers) < MaxSubs
    /\ tsSubscribers' = subscribe(tsState, tsSubscribers, callback).subscribers
    /\ calls' = subscribe(tsState, tsSubscribers, callback).calls
    /\ writes' = <<>>
    /\ subStatus' = [subStatus EXCEPT ![callback] = "subscribed"]
    /\ lastOp' = Op("subscribe", "ok")
    /\ UNCHANGED <<component, returned, ulVars, uaVars, now, tsState, tsTimer, locVars, ttVars, lastTick>>

\* the function returned by subscribe(callback); it exists once subscribe(callback) was called
Time_unsubscribe(callback) ==
    /\ component = "time"
    /\ subStatus[callback] # "never"
    /\ tsSubscribers' = removeCallback(tsSubscribers, callback)
    /\ calls' = <<>>
    /\ writes' = <<>>
    /\ subStatus' = [subStatus EXCEPT ![callback] = "removed"]
    /\ lastOp' = Op("unsubscribe", "ok")
    /\ UNCHANGED <<component, returned, ulVars, uaVars, now, tsState, tsTimer, locVars, ttVars, lastTick>>

Time_destroy ==
    /\ component = "time"
    /\ tsTimer' = FALSE
    /\ tsSubscribers' = clearSubscribers(tsSubscribers)
    /\ calls' = <<>>
    /\ writes' = <<>>
    /\ subStatus' = [c \in Callbacks |-> IF subStatus[c] = "subscribed" THEN "destroyed" ELSE subStatus[c]]
    /\ lastOp' = Op("destroy", "ok")
    /\ UNCHANGED <<component, returned, ulVars, uaVars, now, tsState, locVars, ttVars, lastTick>>

\* the wall clock moves on
ClockAdvance ==
    /\ component \in {"time", "timeTravel"}
    /\ now < MaxNow
    /\ now' = now + 1
    /\ calls' = <<>>
    /\ writes' = <<>>
    /\ lastOp' = Op("clockAdvance", "ok")
    /\ UNCHANGED <<component, returned, ulVars, uaVars, timeVars, subStatus, locVars, ttVars, lastTick>>

\* ---------------------------------------------------------------- geodesy
\* setLocation's range checks: the calls they reject
latitudeOutOfRange(latitude) == latitude < -90 * Scale \/ latitude > 90 * Scale

longitudeOutOfRange(longitude) == longitude < -180 * Scale \/ longitude > 180 * Scale

\* zone = Math.floor((lng + 180) / 6) + 1; hemisphere = lat >= 0 ? 'N' : 'S'
calculateUTM(lat, lng) ==
    [zone |-> ((lng + 180 * Scale) \div (6 * Scale)) + 1,
     hemisphere |-> IF lat >= 0 THEN "N" ELSE "S"]

calculateCoordinateSystem(lat, lng, alt) ==
    [latitude |-> lat, longitude |-> lng, altitude |-> alt, utm |-> calculateUTM(lat, lng)]

\* Math.floor in place of Math.round
baseOffsetFloor(lng) == (lng \div (15 * Scale)) * 60

\* Math.round(x) is floor(x + 1/2): Math.round(lng / 15) * 60
baseOffset(lng) == ((2 * lng + 15 * Scale) \div (30 * Scale)) * 60

\* the name is the zone of DateTime.now().setZone('UTC').plus(...), which stays UTC;
\* the fixed-offset zone of `now` is never in DST
calculateTimezone(lat, lng) ==
    [name |-> "UTC", offset |-> baseOffset(lng), isDST |-> FALSE, dstOffset |-> 0]

\* ---------------------------------------------------------------- LocationService
\* error.message of the GeolocationPositionError the provider reports
ProviderErrors == {"User denied Geolocation", "Timeout expired"}

\* the reasons getCurrentLocation and enableGPS reject with
GeolocationUnsupported == "Geolocation is not supported by this browser"

GeolocationError(message) == "Geolocation error: " \o message

GPSError(message) == "GPS error: " \o message

LocationServiceInit ==
    [currentLocation |-> Null, coordinateSystem |-> Null, timezone |-> Null,
     astronomicalPosition |-> Null, isGPSEnabled |-> FALSE]

\* a merge that keeps a location once one is stored
mergeKeepingLocation(st, updates) ==
    [f \in DOMAIN st |->
        IF f \in DOMAIN updates /\ ~(f = "currentLocation" /\ st[f] # Null) THEN updates[f] ELSE st[f]]

\* state = {...state, ...updates}
mergeState(st, updates) ==
    [f \in DOMAIN st |-> IF f \in DOMAIN updates THEN updates[f] ELSE st[f]]

\* an update object that leaves the timezone out
setLocationUpdatesWithoutTimezone(latitude, longitude, altitude) ==
    [currentLocation |-> [latitude |-> latitude, longitude |-> longitude, altitude |-> altitude],
     coordinateSystem |-> calculateCoordinateSystem(latitude, longitude, altitude)]

\* the object setLocation hands to updateState
setLocationUpdates(latitude, longitude, altitude) ==
    [currentLocation |-> [latitude |-> latitude, longitude |-> longitude, altitude |-> altitude],
     coordinateSystem |-> calculateCoordinateSystem(latitude, longitude, altitude),
     timezone |-> calculateTimezone(latitude, longitude)]

\* what getAstronomicalPosition computes for the stored location (its observer)
astronomicalPositionFor(st) == [observer |-> st.currentLocation]

\* an update whose continuation runs before those queued earlier
scheduleNewestFirst(queue, st) ==
    IF nodeEnv # "test" /\ st.currentLocation # Null
    THEN <<astronomicalPositionFor(st)>> \o queue
    ELSE queue

\* updateAstronomicalPosition, called by setLocation outside tests: the position is computed
\* at once and the continuation that stores it is queued
scheduleAstronomicalUpdate(queue, st) ==
    IF nodeEnv # "test" /\ st.currentLocation # Null
    THEN Append(queue, astronomicalPositionFor(st))
    ELSE queue

\* a setLocation that clamps out-of-range coordinates instead of throwing
setLocationClamped(st, subs, queue, latitude, longitude, altitude) ==
    LET lat == IF latitude > 90 * Scale THEN 90 * Scale
               ELSE IF latitude < -90 * Scale THEN -90 * Scale ELSE latitude
        lng == IF longitude > 180 * Scale THEN 180 * Scale
               ELSE IF longitude < -180 * Scale THEN -180 * Scale ELSE longitude
        s2 == mergeState(st, setLocationUpdates(lat, lng, altitude))
    IN  [threw |-> FALSE, state |-> s2, calls |-> notifySubscribers(subs, s2),
         writes |-> <<s2>>, queue |-> scheduleAstronomicalUpdate(queue, s2)]

\* setLocation as a function of the service it is called on: the outcome and what it did
setLocation(st, subs, queue, latitude, longitude, altitude) ==
    IF latitudeOutOfRange(latitude) \/ longitudeOutOfRange(longitude)
    THEN [threw |-> TRUE, state |-> st, calls |-> <<>>, writes |-> <<>>, queue |-> queue]
    ELSE LET s2 == mergeState(st, setLocationUpdates(latitude, longitude, altitude))
         IN  [threw |-> FALSE, state |-> s2, calls |-> notifySubscribers(subs, s2),
              writes |-> <<s2>>, queue |-> scheduleAstronomicalUpdate(queue, s2)]

\* updateState(updates) on a service in state st: the new state and its broadcast
updateState(st, subs, updates) ==
    LET s2 == mergeState(st, updates)
    IN  [state |-> s2, calls |-> notifySubscribers(subs, s2), writes |-> <<s2>>]

\* position.coords.altitude || 0
altitudeOrZero(coords) == IF coords.altitude = <<>> THEN 0 ELSE coords.altitude[1]

Loc_setLocation(latitude, longitude, altitude) ==
    /\ component = "location"
    /\ LET r == setLocation(lsState, lsSubscribers, astroQueue, latitude, longitude, altitude)
       IN  /\ Len(r.queue) <= MaxAstroQueue
           /\ lsState' = r.state
           /\ calls' = r.calls
           /\ writes' = r.writes
           /\ astroQueue' = r.queue
           /\ lastOp' = Op("setLocation", IF r.threw THEN "threw" ELSE "ok")
    /\ UNCHANGED <<component, returned, ulVars, uaVars, now, timeVars, ttVars, lastTick, subStatus,
                   lsSubscribers, watchId, geoSupported, geoFailed, nodeEnv, watches,
                   nextWatchId, pendingPositions>>

\* the continuation of updateAstronomicalPosition after its await
Loc_astronomicalUpdate ==
    /\ component = "location"
    /\ astroQueue # <<>>
    /\ LET r == updateState(lsState, lsSubscribers, [astronomicalPosition |-> Head(astroQueue)])
       IN  /\ lsState' = r.state
           /\ calls' = r.calls
           /\ writes' = r.writes
    /\ astroQueue' = Tail(astroQueue)
    /\ lastOp' = Op("astronomicalUpdate", "ok")
    /\ UNCHANGED <<component, returned, ulVars, uaVars, now, timeVars, ttVars, lastTick, subStatus,
                   lsSubscribers, watchId, geoSupported, geoFailed, nodeEnv, watches,
                   nextWatchId, pendingPositions>>

Loc_getCurrentLocation ==
    /\ component = "location"
    /\ IF ~geoSupported
       THEN /\ lastOp' = Op("getCurrentLocation", GeolocationUnsupported)
            /\ geoFailed' = TRUE
            /\ UNCHANGED pendingPositions
       ELSE /\ pendingPositions < MaxPending
            /\ pendingPositions' = pendingPositions + 1
            /\ lastOp' = Op("getCurrentLocation", "pending")
            /\ UNCHANGED geoFailed
    /\ calls' = <<>>
    /\ writes' = <<>>
    /\ UNCHANGED <<component, returned, ulVars, uaVars, now, timeVars, ttVars, lastTick, subStatus,
                   lsState, lsSubscribers, watchId, geoSupported, nodeEnv, watches, nextWatchId,
                   astroQueue>>

\* the success callback of getCurrentPosition; a task of its own, so no continuation is pending
Loc_positionSuccess(coords) ==
    /\ component = "location"
    /\ pendingPositions > 0
    /\ astroQueue = <<>>
    /\ pendingPositions' = pendingPositions - 1
    /\ LET r == setLocation(lsState, lsSubscribers, astroQueue,
                            coords.latitude, coords.longitude, altitudeOrZero(coords))
       IN  /\ lsState' = r.state
           /\ calls' = r.calls
           /\ writes' = r.writes
           /\ astroQueue' = r.queue
           /\ lastOp' = Op("positionSuccess", IF r.threw THEN "threw" ELSE "resolved")
    /\ UNCHANGED <<component, returned, ulVars, uaVars, now, timeVars, ttVars, lastTick, subStatus,
                   lsSubscribers, watchId, geoSupported, geoFailed, nodeEnv, watches,
                   nextWatchId>>

\* the error callback of getCurrentPosition
Loc_positionError(message) ==
    /\ component = "location"
    /\ pendingPositions > 0
    /\ astroQueue = <<>>
    /\ pendingPositions' = pendingPositions - 1
    /\ calls' = <<>>
    /\ writes' = <<>>
    /\ lastOp' = Op("positionError", GeolocationError(message))
    /\ geoFailed' = TRUE
    /\ UNCHANGED <<component, returned, ulVars, uaVars, now, timeVars, ttVars, lastTick, subStatus,
                   lsState, lsSubscribers, watchId, geoSupported, nodeEnv, watches, nextWatchId,
                   astroQueue>>

Loc_enableGPS ==
    /\ component = "location"
    /\ IF ~geoSupported
       THEN /\ lastOp' = Op("enableGPS", GeolocationUnsupported)
            /\ geoFailed' = TRUE
            /\ UNCHANGED <<watchId, watches, nextWatchId>>
       ELSE /\ nextWatchId <= MaxWatches
            /\ watches' = watches \cup {nextWatchId}
            /\ watchId' = nextWatchId
            /\ nextWatchId' = nextWatchId + 1
            /\ lastOp' = Op("enableGPS", "pending")
            /\ UNCHANGED geoFailed
    /\ calls' = <<>>
    /\ writes' = <<>>
    /\ UNCHANGED <<component, returned, ulVars, uaVars, now, timeVars, ttVars, lastTick, subStatus,
                   lsState, lsSubscribers, geoSupported, nodeEnv, pendingPositions, astroQueue>>

\* the success callback of the watch started by enableGPS, for one fix
watchSuccess(st, subs, queue, coords) ==
    LET r == setLocation(st, subs, queue, coords.latitude, coords.longitude, altitudeOrZero(coords))
        e == updateState(r.state, subs, [isGPSEnabled |-> TRUE])
    IN  IF r.threw \/ r.state.isGPSEnabled
        THEN [state |-> r.state, calls |-> r.calls, writes |-> r.writes, queue |-> r.queue,
              resolves |-> FALSE]
        ELSE [state |-> e.state, calls |-> r.calls \o e.calls, writes |-> r.writes \o e.writes,
              queue |-> r.queue, resolves |-> TRUE]

Loc_watchSuccess(id, coords) ==
    /\ component = "location"
    /\ id \in watches
    /\ astroQueue = <<>>
    /\ LET r == watchSuccess(lsState, lsSubscribers, astroQueue, coords)
       IN  /\ lsState' = r.state
           /\ calls' = r.calls
           /\ writes' = r.writes
           /\ astroQueue' = r.queue
           /\ lastOp' = Op("watchSuccess", IF r.resolves THEN "resolved" ELSE "ok")
    /\ UNCHANGED <<component, returned, ulVars, uaVars, now, timeVars, ttVars, lastTick, subStatus,
                   lsSubscribers, watchId, geoSupported, geoFailed, nodeEnv, watches,
                   nextWatchId, pendingPositions>>

\* an error callback that also forgets the location
watchErrorUpdatesClearingLocation ==
    [isGPSEnabled |-> FALSE, currentLocation |-> Null, coordinateSystem |-> Null, timezone |-> Null]

\* what the error callback of the watch hands to updateState
watchErrorUpdates == [isGPSEnabled |-> FALSE]

\* the error callback of the watch started by enableGPS
Loc_watchError(id, message) ==
    /\ component = "location"
    /\ id \in watches
    /\ astroQueue = <<>>
    /\ LET r == updateState(lsState, lsSubscribers, watchErrorUpdates)
       IN  /\ lsState' = r.state
           /\ calls' = r.calls
           /\ writes' = r.writes
    /\ lastOp' = Op("watchError", GPSError(message))
    /\ geoFailed' = TRUE
    /\ UNCHANGED <<component, returned, ulVars, uaVars, now, timeVars, ttVars, lastTick, subStatus,
                   lsSubscribers, watchId, geoSupported, nodeEnv, watches, nextWatchId,
                   pendingPositions, astroQueue>>

\* disableGPS on a service: clearWatch(watchId) when one is stored, then updateState
disableGPS(st, subs, wid, registered) ==
    LET r == updateState(st, subs, [isGPSEnabled |-> FALSE])
    IN  [state |-> r.state, calls |-> r.calls, writes |-> r.writes, watchId |-> 0,
         watches |-> IF wid # 0 THEN registered \ {wid} ELSE registered]

Loc_disableGPS ==
    /\ component = "location"
    /\ LET r == disableGPS(lsState, lsSubscribers, watchId, watches)
       IN  /\ lsState' = r.state
           /\ calls' = r.calls
           /\ writes' = r.writes
           /\ watchId' = r.watchId
           /\ watches' = r.watches
    /\ lastOp' = Op("disableGPS", "ok")
    /\ UNCHANGED <<component, returned, ulVars, uaVars, now, timeVars, ttVars, lastTick, subStatus,
                   lsSubscribers, geoSupported, geoFailed, nodeEnv, nextWatchId,
                   pendingPositions, astroQueue>>

Loc_subscribe(callback) ==
    /\ component = "location"
    /\ Len(lsSubscribers) < MaxSubs
    /\ lsSubscribers' = subscribe(lsState, lsSubscribers, callback).subscribers
    /\ calls' = subscribe(lsState, lsSubscribers, callback).calls
    /\ writes' = <<>>
    /\ subStatus' = [subStatus EXCEPT ![callback] = "subscribed"]
    /\ lastOp' = Op("subscribe", "ok")
    /\ UNCHANGED <<component, returned, ulVars, uaVars, now, timeVars, ttVars, lastTick, lsState,
                   watchId, geoSupported, geoFailed, nodeEnv, watches, nextWatchId,
                   pendingPositions, astroQueue>>

\* the function returned by subscribe(callback); it exists once subscribe(callback) was called
Loc_unsubscribe(callback) ==
    /\ component = "location"
    /\ subStatus[callback] # "never"
    /\ lsSubscribers' = removeCallback(lsSubscribers, callback)
    /\ calls' = <<>>
    /\ writes' = <<>>
    /\ subStatus' = [subStatus EXCEPT ![callback] = "removed"]
    /\ lastOp' = Op("unsubscribe", "ok")
    /\ UNCHANGED <<component, returned, ulVars, uaVars, now, timeVars, ttVars, lastTick, lsState,
                   watchId, geoSupported, geoFailed, nodeEnv, watches, nextWatchId,
                   pendingPositions, astroQueue>>

Loc_destroy ==
    /\ component = "location"
    /\ LET r == disableGPS(lsState, lsSubscribers, watchId, watches)
       IN  /\ lsState' = r.state
           /\ calls' = r.calls
           /\ writes' = r.writes
           /\ watchId' = r.watchId
           /\ watches' = r.watches
    /\ lsSubscribers' = clearSubscribers(lsSubscribers)
    /\ subStatus' = [c \in Callbacks |-> IF subStatus[c] = "subscribed" THEN "destroyed" ELSE subStatus[c]]
    /\ lastOp' = Op("destroy", "ok")
    /\ UNCHANGED <<component, returned, ulVars, uaVars, now, timeVars, ttVars, lastTick, geoSupported,
                   geoFailed, nodeEnv, nextWatchId, pendingPositions, astroQueue>>

\* the reason getAstronomicalPosition rejects with while no location is stored
LocationNotSet == "Location not set"

\* getAstronomicalPosition on a service in state st: the outcome of the promise it returns
getAstronomicalPosition(st) ==
    IF st.currentLocation = Null
    THEN [rejected |-> TRUE, reason |-> LocationNotSet, value |-> Null]
    ELSE [rejected |-> FALSE, reason |-> "", value |-> astronomicalPositionFor(st)]

\* a direct call of getAstronomicalPosition: it reads the state and stores nothing
Loc_getAstronomicalPosition ==
    /\ component \in {"location", "useLocation"}
    /\ lastOp' = Op("getAstronomicalPosition",
                    IF getAstronomicalPosition(lsState).rejected
                    THEN getAstronomicalPosition(lsState).reason ELSE "resolved")
    /\ calls' = <<>>
    /\ writes' = <<>>
    /\ UNCHANGED <<component, returned, ulVars, uaVars, now, timeVars, ttVars, lastTick, subStatus,
                   locVars>>

\* ---------------------------------------------------------------- useLocation
\* the callback the hook's mount effect subscribes: (newState) => setState(newState)
HookCallback == "useLocation.setState"

\* the hook's state after the broadcasts cs: the last state handed to its callback
hookStateAfter(st, cs) == IF cs = <<>> THEN st ELSE cs[Len(cs)].st

\* the message of the range error setLocation throws
setLocationError(latitude, longitude) ==
    IF latitudeOutOfRange(latitude)
    THEN "Latitude must be between -90 and 90 degrees"
    ELSE "Longitude must be between -180 and 180 degrees"

\* handleSetLocation: setError(null), then the service call inside try/catch
UL_setLocation(latitude, longitude, altitude) ==
    /\ component = "useLocation"
    /\ LET r == setLocation(lsState, lsSubscribers, astroQueue, latitude, longitude, altitude)
       IN  /\ Len(r.queue) <= MaxAstroQueue
           /\ lsState' = r.state
           /\ calls' = r.calls
           /\ writes' = r.writes
           /\ astroQueue' = r.queue
           /\ ulState' = hookStateAfter(ulState, r.calls)
           /\ ulError' = IF r.threw THEN <<setLocationError(latitude, longitude)>> ELSE <<>>
           /\ lastOp' = Op("hook.setLocation", IF r.threw THEN "caught" ELSE "ok")
    /\ ulCalled' = "setLocation"
    /\ UNCHANGED <<component, returned, uaVars, now, timeVars, ttVars, lastTick, subStatus, lsSubscribers,
                   watchId, geoSupported, geoFailed, nodeEnv, watches, nextWatchId,
                   pendingPositions, ulIsLoading, ulPending>>

\* the continuation of the service's updateAstronomicalPosition, seen by the mounted hook
UL_astronomicalUpdate ==
    /\ component = "useLocation"
    /\ astroQueue # <<>>
    /\ LET r == updateState(lsState, lsSubscribers, [astronomicalPosition |-> Head(astroQueue)])
       IN  /\ lsState' = r.state
           /\ calls' = r.calls
           /\ writes' = r.writes
           /\ ulState' = hookStateAfter(ulState, r.calls)
    /\ astroQueue' = Tail(astroQueue)
    /\ lastOp' = Op("astronomicalUpdate", "ok")
    /\ UNCHANGED <<component, returned, uaVars, now, timeVars, ttVars, lastTick, subStatus, lsSubscribers,
                   watchId, geoSupported, geoFailed, nodeEnv, watches, nextWatchId,
                   pendingPositions, ulError, ulIsLoading, ulCalled, ulPending>>

\* a refresh handler that never returns early
refreshNeverReturnsEarly(st) == FALSE

\* handleRefreshAstronomicalPosition: if (!state.currentLocation) { setError(...); return }
refreshReturnsEarly(st) == st.currentLocation = Null

\* handleRefreshAstronomicalPosition up to its await
UL_refreshAstronomicalPosition ==
    /\ component = "useLocation"
    /\ IF refreshReturnsEarly(ulState)
       THEN /\ ulError' = <<LocationNotSet>>
            /\ ulCalled' = "none"
            /\ lastOp' = Op("refreshAstronomicalPosition", "returned")
            /\ UNCHANGED <<ulIsLoading, ulPending>>
       ELSE /\ Len(ulPending) < MaxHookPending
            /\ ulIsLoading' = TRUE
            /\ ulError' = <<>>
            /\ ulCalled' = "getAstronomicalPosition"
            /\ ulPending' = Append(ulPending, getAstronomicalPosition(lsState))
            /\ lastOp' = Op("refreshAstronomicalPosition", "awaiting")
    /\ calls' = <<>>
    /\ writes' = <<>>
    /\ UNCHANGED <<component, returned, uaVars, now, timeVars, ttVars, lastTick, subStatus, locVars,
                   ulState>>

\* handleGetCurrentLocation up to its await: setIsLoading(true), setError(null), the service call
UL_getCurrentLocation ==
    /\ component = "useLocation"
    /\ ulIsLoading' = TRUE
    /\ ulError' = <<>>
    /\ ulCalled' = "getCurrentLocation"
    /\ IF ~geoSupported
       THEN /\ Len(ulPending) < MaxHookPending
            /\ ulPending' = Append(ulPending, [rejected |-> TRUE, reason |-> GeolocationUnsupported,
                                               value |-> Null])
            /\ geoFailed' = TRUE
            /\ UNCHANGED pendingPositions
       ELSE /\ pendingPositions < MaxPending
            /\ pendingPositions' = pendingPositions + 1
            /\ UNCHANGED <<ulPending, geoFailed>>
    /\ lastOp' = Op("hook.getCurrentLocation", "awaiting")
    /\ calls' = <<>>
    /\ writes' = <<>>
    /\ UNCHANGED <<component, returned, uaVars, now, timeVars, ttVars, lastTick, subStatus, lsState,
                   lsSubscribers, watchId, geoSupported, nodeEnv, watches, nextWatchId,
                   astroQueue, ulState>>

\* the provider answers a request of the hook with a position: the service's success callback,
\* whose resolve(locationData) readies the continuation of the awaiting handler
UL_positionSuccess(coords) ==
    /\ component = "useLocation"
    /\ pendingPositions > 0
    /\ astroQueue = <<>>
    /\ ulPending = <<>>
    /\ pendingPositions' = pendingPositions - 1
    /\ LET r == setLocation(lsState, lsSubscribers, astroQueue,
                            coords.latitude, coords.longitude, altitudeOrZero(coords))
       IN  /\ lsState' = r.state
           /\ calls' = r.calls
           /\ writes' = r.writes
           /\ astroQueue' = r.queue
           /\ ulState' = hookStateAfter(ulState, r.calls)
           /\ ulPending' =
                  IF r.threw
                  THEN ulPending
                  ELSE Append(ulPending, [rejected |-> FALSE, reason |-> "",
                                          value |-> r.state.currentLocation])
           /\ lastOp' = Op("positionSuccess", IF r.threw THEN "threw" ELSE "resolved")
    /\ UNCHANGED <<component, returned, uaVars, now, timeVars, ttVars, lastTick, subStatus,
                   lsSubscribers, watchId, geoSupported, geoFailed, nodeEnv, watches,
                   nextWatchId, ulError, ulIsLoading, ulCalled>>

\* the provider answers a request of the hook with an error: reject(new Error(...))
UL_positionError(message) ==
    /\ component = "useLocation"
    /\ pendingPositions > 0
    /\ astroQueue = <<>>
    /\ ulPending = <<>>
    /\ pendingPositions' = pendingPositions - 1
    /\ ulPending' = Append(ulPending, [rejected |-> TRUE, reason |-> GeolocationError(message),
                                       value |-> Null])
    /\ geoFailed' = TRUE
    /\ calls' = <<>>
    /\ writes' = <<>>
    /\ lastOp' = Op("positionError", GeolocationError(message))
    /\ UNCHANGED <<component, returned, uaVars, now, timeVars, ttVars, lastTick, subStatus, lsState,
                   lsSubscribers, watchId, geoSupported, nodeEnv, watches, nextWatchId,
                   astroQueue, ulState, ulError, ulIsLoading, ulCalled>>

\* the rest of a handler after its await: catch { setError(message) } finally { setIsLoading(false) }
UL_settle ==
    /\ component = "useLocation"
    /\ ulPending # <<>>
    /\ ulError' = IF Head(ulPending).rejected THEN <<Head(ulPending).reason>> ELSE ulError
    /\ ulIsLoading' = FALSE
    /\ ulPending' = Tail(ulPending)
    /\ lastOp' = Op("settle", IF Head(ulPending).rejected THEN "caught" ELSE "ok")
    /\ calls' = <<>>
    /\ writes' = <<>>
    /\ UNCHANGED <<component, returned, uaVars, now, timeVars, ttVars, lastTick, subStatus, locVars,
                   ulState, ulCalled>>

\* ---------------------------------------------------------------- geodesy on a fresh service
\* the first setLocation call on a service just constructed, over the whole grid of inputs
Geo_setLocation(latitude, longitude, altitude) ==
    /\ component = "geodesy"
    /\ lastOp.name = "init"
    /\ LET r == setLocation(lsState, lsSubscribers, astroQueue, latitude, longitude, altitude)
       IN  /\ lsState' = r.state
           /\ calls' = r.calls
           /\ writes' = r.writes
           /\ lastOp' = Op("setLocation", IF r.threw THEN "threw" ELSE "ok")
    /\ UNCHANGED <<component, returned, ulVars, uaVars, now, timeVars, ttVars, lastTick, subStatus,
                   lsSubscribers, watchId, geoSupported, geoFailed, nodeEnv, watches,
                   nextWatchId, pendingPositions, astroQueue>>

\* ---------------------------------------------------------------- useTimeTravel
\* a setTime without its setIsLiveMode(false)
pinTimeKeepingLive(time) == [currentTime |-> time, isLiveMode |-> TRUE]

\* setTime and jumpToTime: setCurrentTime(time); setIsLiveMode(false)
pinTime(time) == [currentTime |-> time, isLiveMode |-> FALSE]

\* the interval callback: setCurrentTime(DateTime.now())
tickTime(current, clock) == clock

TT_setTime(time) ==
    /\ component = "timeTravel"
    /\ ttCurrentTime' = pinTime(time).currentTime
    /\ ttIsLiveMode' = pinTime(time).isLiveMode
    /\ lastOp' = Op("setTime", "ok")
    /\ UNCHANGED <<component, returned, ulVars, uaVars, now, timeVars, locVars, subStatus, writes, calls,
                   ttInterval, ttEffectFor, lastTick>>

TT_jumpToTime(time) ==
    /\ component = "timeTravel"
    /\ ttCurrentTime' = pinTime(time).currentTime
    /\ ttIsLiveMode' = pinTime(time).isLiveMode
    /\ lastOp' = Op("jumpToTime", "ok")
    /\ UNCHANGED <<component, returned, ulVars, uaVars, now, timeVars, locVars, subStatus, writes, calls,
                   ttInterval, ttEffectFor, lastTick>>

TT_resetToNow ==
    /\ component = "timeTravel"
    /\ ttCurrentTime' = now
    /\ ttIsLiveMode' = TRUE
    /\ lastOp' = Op("resetToNow", "ok")
    /\ UNCHANGED <<component, returned, ulVars, uaVars, now, timeVars, locVars, subStatus, writes, calls,
                   ttInterval, ttEffectFor, lastTick>>

\* the callback of the effect's setInterval; it fires while the interval is registered
TT_tick ==
    /\ component = "timeTravel"
    /\ ttInterval
    /\ ttCurrentTime' = tickTime(ttCurrentTime, now)
    /\ lastTick' = IF ttIsLiveMode THEN LastTwo(lastTick, ttCurrentTime') ELSE lastTick
    /\ lastOp' = Op("tick", "ok")
    /\ UNCHANGED <<component, returned, ulVars, uaVars, now, timeVars, locVars, subStatus, writes, calls,
                   ttIsLiveMode, ttInterval, ttEffectFor>>

ModeName(live) == IF live THEN "live" ELSE "timeTravel"

\* React runs the effect of [isLiveMode] after the render that changed it: the previous
\* run's cleanup (clearInterval), then the body (setInterval when live)
TT_effect ==
    /\ component = "timeTravel"
    /\ ttEffectFor # ModeName(ttIsLiveMode)
    /\ ttInterval' = ttIsLiveMode
    /\ ttEffectFor' = ModeName(ttIsLiveMode)
    /\ lastOp' = Op("effect", "ok")
    /\ UNCHANGED <<component, returned, ulVars, uaVars, now, timeVars, locVars, subStatus, writes, calls,
                   ttCurrentTime, ttIsLiveMode, lastTick>>

\* ---------------------------------------------------------------- AstronomicalService
\* The ephemeris library is the collaborator: each of its calls either returns or throws, and
\* `fails` names the calls that throw.  Positions and instants it returns are not represented
\* beyond the day of an eclipse peak.
PLANETS == <<"Mercury", "Venus", "Mars", "Jupiter", "Saturn", "Uranus", "Neptune">>

\* the collaborator calls both methods make before their try block
SetupCalls == {"MakeObserver", "MakeTime"}

PlanetCalls == {PLANETS[i] : i \in 1..Len(PLANETS)}

\* the searches of getSunMoonTimes, by the field they fill
SunMoonFields ==
    {"sunrise", "sunset", "solarNoon", "moonrise", "moonset", "civilDawn", "civilDusk",
     "nauticalDawn", "nauticalDusk", "astronomicalDawn", "astronomicalDusk"}

\* getPlanetaryPositions when the calls in fails throw: the names of the planets returned
getPlanetaryPositions(fails) ==
    IF fails \cap SetupCalls # {}
    THEN [threw |-> TRUE, value |-> <<>>]
    ELSE [threw |-> FALSE, value |-> SelectSeq(PLANETS, LAMBDA planet : planet \notin fails)]

\* findRiseSet, findCulmination, findTwilight: null (<<>>) when the search throws
findOrNull(field, fails) == IF field \in fails THEN <<>> ELSE <<field>>

\* getSunMoonTimes when the calls in fails throw
getSunMoonTimes(fails) ==
    IF fails \cap SetupCalls # {}
    THEN [threw |-> TRUE, value |-> <<>>]
    ELSE [threw |-> FALSE, value |-> [f \in SunMoonFields |-> findOrNull(f, fails)]]

\* at most two failing calls per invocation
FailureSets(names) == {fs \in SUBSET names : Cardinality(fs) <= 2}

Ast_getPlanetaryPositions(fails) ==
    /\ component = "astronomy"
    /\ returned.name = "none"
    /\ returned' = [name |-> "getPlanetaryPositions", fails |-> fails,
                    threw |-> getPlanetaryPositions(fails).threw,
                    value |-> getPlanetaryPositions(fails).value]
    /\ lastOp' = Op("getPlanetaryPositions", IF returned'.threw THEN "threw" ELSE "ok")
    /\ UNCHANGED <<component, ulVars, uaVars, now, timeVars, ttVars, lastTick, subStatus, locVars, writes,
                   calls>>

Ast_getSunMoonTimes(fails) ==
    /\ component = "astronomy"
    /\ returned.name = "none"
    /\ returned' = [name |-> "getSunMoonTimes", fails |-> fails,
                    threw |-> getSunMoonTimes(fails).threw,
                    value |-> getSunMoonTimes(fails).value]
    /\ lastOp' = Op("getSunMoonTimes", IF returned'.threw THEN "threw" ELSE "ok")
    /\ UNCHANGED <<component, ulVars, uaVars, now, timeVars, ttVars, lastTick, subStatus, locVars, writes,
                   calls>>

\* Moon phase.  The phase the ephemeris returns is a fixed-point fraction of the cycle in
\* 1/PhaseUnits, so that the bucket limits (odd sixteenths) are on the grid.
PhaseUnits == 160

Phases == 0..(PhaseUnits - 1)

MOON_PHASE_NAMES ==
    <<"New Moon", "Waxing Crescent", "First Quarter", "Waxing Gibbous", "Full Moon",
      "Waning Gibbous", "Last Quarter", "Waning Crescent">>

\* a bucket index that truncates phase * 8
phaseIndexTruncated(phase) == ((8 * phase) \div PhaseUnits) % 8

\* Math.round(phase * 8) % 8; Math.round is floor(x + 0.5)
phaseIndex(phase) == ((16 * phase + PhaseUnits) \div (2 * PhaseUnits)) % 8

\* the phase and phaseName fields of getMoonPhase(time); the other fields are not represented
getMoonPhase(time, phase) ==
    [phase |-> phase, phaseName |-> MOON_PHASE_NAMES[phaseIndex(phase) + 1]]

Ast_getMoonPhase(time, phase) ==
    /\ component = "astronomy"
    /\ returned.name = "none"
    /\ returned' = [name |-> "getMoonPhase", time |-> time, threw |-> FALSE,
                    index |-> phaseIndex(phase), value |-> getMoonPhase(time, phase)]
    /\ lastOp' = Op("getMoonPhase", "ok")
    /\ UNCHANGED <<component, ulVars, uaVars, now, timeVars, ttVars, lastTick, subStatus, locVars,
                   writes, calls>>

\* Eclipses.  Instants are whole days.  The ephemeris has solar eclipses at new moons and lunar
\* eclipses at full moons, which never coincide: odd days and even days here.
SolarDays == {d \in 1..MaxDay : d % 2 = 1}

LunarDays == {d \in 1..MaxDay : d % 2 = 0}

\* start instants and window lengths (daysToSearch) of the calls explored
StartDays == {0, 1}

Windows == {3, MaxDay + 1}

\* the ephemeris calls of getUpcomingEclipses, each with the instant it is called for
EclipseCallPoints ==
    ({"SearchGlobalSolarEclipse", "SearchLunarEclipse"} \X (0..(MaxDay + 1)))
        \cup ({"SearchLocalSolarEclipse"} \X SolarDays)
        \cup ({"MakeTime"} \X (0..(MaxDay + 2)))

\* at most one failing call per invocation
EclipseFailures == {{}} \cup {{c} : c \in EclipseCallPoints}

SearchCall(type) ==
    IF type = "solar" THEN "SearchGlobalSolarEclipse" ELSE "SearchLunarEclipse"

Min(S) == CHOOSE x \in S : \A y \in S : x <= y

\* processSolarEclipse / processLunarEclipse: the event, or nothing (null) when the local
\* search inside its try block throws
processEclipse(type, peak, fails) ==
    IF type = "solar" /\ <<"SearchLocalSolarEclipse", peak>> \in fails
    THEN <<>>
    ELSE <<[type |-> type, date |-> peak]>>

\* a loop that takes whatever eclipse the search returns
anyPeak(peak, endTime) == TRUE

\* eclipse.peak.tt < endTime.tt
peakInWindow(peak, endTime) == peak < endTime

\* a search loop that forgets the events found so far when a step throws
RECURSIVE searchDroppingOnFailure(_, _, _, _, _, _)
searchDroppingOnFailure(type, peaks, fails, searchTime, endTime, eclipses) ==
    IF ~(searchTime < endTime)
    THEN eclipses
    ELSE IF <<SearchCall(type), searchTime>> \in fails
    THEN <<>>
    ELSE LET later == {q \in peaks : q >= searchTime}
         IN  IF later = {} \/ ~(Min(later) < endTime)
             THEN eclipses
             ELSE searchDroppingOnFailure(type, peaks, fails, Min(later) + 1, endTime,
                                          eclipses \o processEclipse(type, Min(later), fails))

\* one while loop of getUpcomingEclipses: from searchTime on, find the next eclipse of the type,
\* push its event, go on one day after its peak; stop at the end of the window, at an eclipse
\* beyond it, or at a step that throws (catch: break)
RECURSIVE searchEclipses(_, _, _, _, _, _)
searchEclipses(type, peaks, fails, searchTime, endTime, eclipses) ==
    IF ~(searchTime < endTime)
    THEN eclipses
    ELSE IF <<SearchCall(type), searchTime>> \in fails
    THEN eclipses
    ELSE LET later == {q \in peaks : q >= searchTime}
         IN  IF later = {} \/ ~peakInWindow(Min(later), endTime)
             THEN eclipses
             ELSE searchEclipses(type, peaks, fails, Min(later) + 1, endTime,
                                 eclipses \o processEclipse(type, Min(later), fails))

\* the values searchTime takes in that loop, the first being the start instant
RECURSIVE searchCursors(_, _, _, _, _, _)
searchCursors(type, peaks, fails, searchTime, endTime, cursors) ==
    IF ~(searchTime < endTime)
    THEN cursors
    ELSE IF <<SearchCall(type), searchTime>> \in fails
    THEN cursors
    ELSE LET later == {q \in peaks : q >= searchTime}
         IN  IF later = {} \/ ~peakInWindow(Min(later), endTime)
             THEN cursors
             ELSE searchCursors(type, peaks, fails, Min(later) + 1, endTime,
                                Append(cursors, Min(later) + 1))

\* a return statement without the sort
unsorted(events) == events

\* where a stable ascending sort puts e among the sorted events
insertByDate(sorted, e) ==
    LET k == Cardinality({i \in 1..Len(sorted) : sorted[i].date <= e.date})
    IN  SubSeq(sorted, 1, k) \o <<e>> \o SubSeq(sorted, k + 1, Len(sorted))

\* eclipses.sort((a, b) => a.date.toMillis() - b.date.toMillis())
RECURSIVE sortByDate(_)
sortByDate(events) ==
    IF events = <<>>
    THEN <<>>
    ELSE insertByDate(sortByDate(SubSeq(events, 1, Len(events) - 1)), events[Len(events)])

\* getUpcomingEclipses for an ephemeris with the given eclipse days
getUpcomingEclipses(solar, lunar, fails, startTime, daysToSearch) ==
    LET endTime == startTime + daysToSearch
        afterSolar == searchEclipses("solar", solar, fails, startTime, endTime, <<>>)
        afterLunar == searchEclipses("lunar", lunar, fails, startTime, endTime, afterSolar)
    IN  IF <<"MakeTime", startTime>> \in fails
        THEN [threw |-> TRUE, value |-> <<>>]
        ELSE IF <<"MakeTime", endTime>> \in fails
        THEN [threw |-> FALSE, value |-> sortByDate(<<>>)]
        ELSE [threw |-> FALSE, value |-> sortByDate(afterLunar)]

Ast_getUpcomingEclipses(solar, lunar, fails, startTime, daysToSearch) ==
    /\ component = "astronomy"
    /\ returned.name = "none"
    /\ returned' = [name |-> "getUpcomingEclipses", solar |-> solar, lunar |-> lunar,
                    fails |-> fails, startTime |-> startTime, daysToSearch |-> daysToSearch,
                    solarCursors |-> searchCursors("solar", solar, fails, startTime,
                                                   startTime + daysToSearch, <<startTime>>),
                    lunarCursors |-> searchCursors("lunar", lunar, fails, startTime,
                                                   startTime + daysToSearch, <<startTime>>),
                    threw |-> getUpcomingEclipses(solar, lunar, fails, startTime, daysToSearch).threw,
                    value |-> getUpcomingEclipses(solar, lunar, fails, startTime, daysToSearch).value]
    /\ lastOp' = Op("getUpcomingEclipses", IF returned'.threw THEN "threw" ELSE "ok")
    /\ UNCHANGED <<component, ulVars, uaVars, now, timeVars, ttVars, lastTick, subStatus, locVars, writes,
                   calls>>

\* ---------------------------------------------------------------- broadcast with re-entrant callbacks
\* A callback may call subscribe or an unsubscribe function while notifySubscribers is running.
\* forEach walks the array object it was called on, up to the length that array had at the
\* start; unsubscribe assigns a new array to this.subscribers, subscribe pushes onto the
\* array this.subscribers refers to at that moment.
NewCallback == "cbNew"

\* what a subscribed callback does when it is invoked
Behaviours ==
    {[do |-> "nothing", cb |-> NewCallback], [do |-> "subscribe", cb |-> NewCallback]}
        \cup {[do |-> "unsubscribe", cb |-> c] : c \in Callbacks}

\* the subscribers arrays a broadcast starts on
BroadcastArrays == UNION {[1..n -> Callbacks] : n \in 1..(MaxSubs + 1)}

\* a forEach that reads this.subscribers afresh at every step
liveArray(sim) == sim.current

\* the array forEach reads: the object it was called on
iteratedArray(sim) == sim.iterated

\* the invocation of callback c by the broadcast, and what c does in it
invoke(sim, c, behaviour) ==
    LET called == Append(sim.calls, [cb |-> c, by |-> "broadcast"])
    IN  IF behaviour[c].do = "unsubscribe"
        THEN [sim EXCEPT !.calls = called,
                         !.current = removeCallback(sim.current, behaviour[c].cb),
                         !.same = FALSE]
        ELSE IF behaviour[c].do = "subscribe"
        THEN [sim EXCEPT !.calls = Append(called, [cb |-> behaviour[c].cb, by |-> "subscribe"]),
                         !.current = Append(sim.current, behaviour[c].cb),
                         !.iterated = IF sim.same THEN Append(sim.iterated, behaviour[c].cb)
                                      ELSE sim.iterated]
        ELSE [sim EXCEPT !.calls = called]

\* subscribers.forEach(callback => callback(state)) from index i, for an array that had
\* length len when forEach was called
RECURSIVE forEach(_, _, _, _)
forEach(sim, behaviour, i, len) ==
    IF i > len \/ i > Len(iteratedArray(sim))
    THEN sim
    ELSE forEach(invoke(sim, iteratedArray(sim)[i], behaviour), behaviour, i + 1, len)

\* notifySubscribers on the array subs with callbacks that behave as given
notifyReentrant(subs, behaviour) ==
    forEach([iterated |-> subs, current |-> subs, same |-> TRUE, calls |-> <<>>],
            behaviour, 1, Len(subs))

Bc_notifySubscribers(behaviour) ==
    /\ component = "broadcast"
    /\ returned.name = "none"
    /\ returned' = [name |-> "notifySubscribers", subscribers |-> tsSubscribers,
                    behaviour |-> behaviour,
                    calls |-> notifyReentrant(tsSubscribers, behaviour).calls]
    /\ tsSubscribers' = notifyReentrant(tsSubscribers, behaviour).current
    /\ lastOp' = Op("notifySubscribers", "ok")
    /\ UNCHANGED <<component, ulVars, uaVars, now, tsState, tsTimer, ttVars, lastTick, subStatus,
                   locVars, writes, calls>>

\* ---------------------------------------------------------------- sidereal time
\* Sidereal hours are fixed-point integers in 1/HourUnits hour, so that longitude / 15 is exact.
HourUnits == 15 * Scale

DayUnits == 24 * HourUnits

DaySeconds == 86400

\* the service states getSiderealTime is read in: instants around a midnight, a manual offset
\* that crosses it, and longitudes as stored by setLocation, which accepts any number
SiderealInstants == {0, 86399, 86400, 90000}

SiderealLongitudes ==
    {-800 * Scale, -400 * Scale, -180 * Scale, -75 * Scale, -1, 0, 15 * Scale, 180 * Scale,
     400 * Scale}

\* values of SiderealTime(astroTime), Greenwich sidereal hours in [0, 24)
GreenwichSiderealTimes == {0, 1, 6 * HourUnits, 12 * HourUnits, 23 * HourUnits, DayUnits - 1}

\* the % operator of the language: the remainder has the sign of the dividend
remainder(a, n) == IF a >= 0 THEN a % n ELSE 0 - ((0 - a) % n)

\* a normalisation with a single remainder
normalizeOnce(lst) == remainder(lst, DayUnits)

\* ((lst % 24) + 24) % 24
normalizeHours(lst) == remainder(remainder(lst, DayUnits) + DayUnits, DayUnits)

\* currentTime.startOf('day')
startOfDay(instant) == instant - (instant % DaySeconds)

\* getSiderealTime in state st when the ephemeris gives gst for its instant
Time_getSiderealTime(st, gst) ==
    [today |-> startOfDay(Time_getCurrentTime(st)), hours |-> normalizeHours(gst + st.longitude)]

Sid_getSiderealTime(gst) ==
    /\ component = "sidereal"
    /\ returned.name = "none"
    /\ returned' = [name |-> "getSiderealTime", gst |-> gst,
                    value |-> Time_getSiderealTime(tsState, gst)]
    /\ lastOp' = Op("getSiderealTime", "ok")
    /\ UNCHANGED <<component, ulVars, uaVars, now, timeVars, ttVars, lastTick, subStatus, locVars,
                   writes, calls>>

\* ---------------------------------------------------------------- useAstronomy
\* hours by which utcTime moves between two renders of the hook
HourSteps == {6, 25}

\* currentTime.diff(lastUpdated, 'hours').hours > 24
EclipseRescanHours == 24

CalculationFailed == "Failed to calculate astronomical data"

\* !lastUpdated || currentTime.diff(lastUpdated, 'hours').hours > 24, with enableEclipses on
eclipsesDue(lastUpdated, currentTime) ==
    lastUpdated = <<>> \/ currentTime - lastUpdated[1] > EclipseRescanHours

\* useTime delivers a later utcTime
UA_utcTime(hours) ==
    /\ component = "useAstronomy"
    /\ uaUtcTime + hours <= MaxHours
    /\ uaUtcTime' = uaUtcTime + hours
    /\ lastOp' = Op("utcTime", "ok")
    /\ UNCHANGED <<component, returned, ulVars, uaLocation, uaLastUpdated, uaError, uaEclipsesAt,
                   now, timeVars, ttVars, lastTick, subStatus, locVars, writes, calls>>

\* useLocation delivers the observer
UA_location ==
    /\ component = "useAstronomy"
    /\ ~uaLocation
    /\ uaLocation' = TRUE
    /\ lastOp' = Op("location", "ok")
    /\ UNCHANGED <<component, returned, ulVars, uaUtcTime, uaLastUpdated, uaError, uaEclipsesAt,
                   now, timeVars, ttVars, lastTick, subStatus, locVars, writes, calls>>

\* one run of calculateAstronomicalData (on mount, from the interval, or from refresh), all
\* data families enabled; throws: a service call inside the try block throws
UA_calculateAstronomicalData(throws) ==
    /\ component = "useAstronomy"
    /\ IF ~uaLocation
       THEN /\ lastOp' = Op("calculateAstronomicalData", "returned")
            /\ UNCHANGED <<uaLastUpdated, uaError, uaEclipsesAt>>
       ELSE IF throws
       THEN /\ uaError' = <<CalculationFailed>>
            /\ lastOp' = Op("calculateAstronomicalData", "threw")
            /\ UNCHANGED <<uaLastUpdated, uaEclipsesAt>>
       ELSE /\ uaError' = <<>>
            /\ uaEclipsesAt' =
                   IF eclipsesDue(uaLastUpdated, uaUtcTime) THEN <<uaUtcTime>> ELSE uaEclipsesAt
            /\ uaLastUpdated' = <<uaUtcTime>>
            /\ lastOp' = Op("calculateAstronomicalData",
                            IF eclipsesDue(uaLastUpdated, uaUtcTime) THEN "eclipses" ELSE "ok")
    /\ UNCHANGED <<component, returned, ulVars, uaUtcTime, uaLocation, now, timeVars, ttVars,
                   lastTick, subStatus, locVars, writes, calls>>

\* ---------------------------------------------------------------- specifications
InitCommon ==
    /\ now = 0
    /\ tsState = TimeServiceInit
    /\ tsSubscribers = <<>>
    /\ subStatus = [c \in Callbacks |-> "never"]
    /\ lastOp = Op("init", "ok")
    /\ writes = <<>>
    /\ calls = <<>>
    /\ lsState = LocationServiceInit
    /\ lsSubscribers = <<>>
    /\ watchId = 0
    /\ watches = {}
    /\ nextWatchId = 1
    /\ pendingPositions = 0
    /\ astroQueue = <<>>
    /\ ttCurrentTime = now
    /\ ttIsLiveMode = TRUE
    /\ ttInterval = FALSE
    /\ ttEffectFor = "none"
    /\ lastTick = <<>>
    /\ geoFailed = FALSE
    /\ returned = [name |-> "none"]
    /\ ulState = LocationServiceInit
    /\ ulError = <<>>
    /\ ulIsLoading = FALSE
    /\ ulCalled = "none"
    /\ ulPending = <<>>
    /\ uaUtcTime = 0
    /\ uaLocation = FALSE
    /\ uaLastUpdated = <<>>
    /\ uaError = <<>>
    /\ uaEclipsesAt = <<>>

InitTime ==
    /\ component = "time"
    /\ tsTimer = TRUE
    /\ geoSupported = TRUE
    /\ nodeEnv = "production"
    /\ InitCommon

InitLoc ==
    /\ component = "location"
    /\ tsTimer = TRUE
    /\ geoSupported \in BOOLEAN
    /\ nodeEnv \in NodeEnvs
    /\ InitCommon

InitTT ==
    /\ component = "timeTravel"
    /\ tsTimer = TRUE
    /\ geoSupported = TRUE
    /\ nodeEnv = "production"
    /\ InitCommon

InitGeo ==
    /\ component = "geodesy"
    /\ tsTimer = TRUE
    /\ geoSupported = TRUE
    /\ nodeEnv = "test"
    /\ InitCommon

\* the hook after its first render and mount effect: its callback is subscribed and has been
\* called with the state of the service
InitUL ==
    /\ component = "useLocation"
    /\ tsTimer = TRUE
    /\ geoSupported = TRUE
    /\ nodeEnv \in NodeEnvs
    /\ now = 0
    /\ tsState = TimeServiceInit
    /\ tsSubscribers = <<>>
    /\ subStatus = [c \in Callbacks |-> "never"]
    /\ lastOp = Op("init", "ok")
    /\ writes = <<>>
    /\ calls = <<[cb |-> HookCallback, st |-> LocationServiceInit]>>
    /\ lsState = LocationServiceInit
    /\ lsSubscribers = <<HookCallback>>
    /\ watchId = 0
    /\ watches = {}
    /\ nextWatchId = 1
    /\ pendingPositions = 0
    /\ astroQueue = <<>>
    /\ ttCurrentTime = now
    /\ ttIsLiveMode = TRUE
    /\ ttInterval = FALSE
    /\ ttEffectFor = "none"
    /\ lastTick = <<>>
    /\ geoFailed = FALSE
    /\ returned = [name |-> "none"]
    /\ ulState = LocationServiceInit
    /\ ulError = <<>>
    /\ ulIsLoading = FALSE
    /\ ulCalled = "none"
    /\ ulPending = <<>>
    /\ uaUtcTime = 0
    /\ uaLocation = FALSE
    /\ uaLastUpdated = <<>>
    /\ uaError = <<>>
    /\ uaEclipsesAt = <<>>

InitAst ==
    /\ component = "astronomy"
    /\ tsTimer = TRUE
    /\ geoSupported = TRUE
    /\ nodeEnv = "production"
    /\ InitCommon

InitUA ==
    /\ component = "useAstronomy"
    /\ tsTimer = TRUE
    /\ geoSupported = TRUE
    /\ nodeEnv = "production"
    /\ InitCommon

\* a TimeService with subscribers, about to broadcast
InitBc ==
    /\ component = "broadcast"
    /\ tsTimer = TRUE
    /\ geoSupported = TRUE
    /\ nodeEnv = "production"
    /\ now = 0
    /\ tsState = TimeServiceInit
    /\ tsSubscribers \in BroadcastArrays
    /\ subStatus = [c \in Callbacks |-> "never"]
    /\ lastOp = Op("init", "ok")
    /\ writes = <<>>
    /\ calls = <<>>
    /\ lsState = LocationServiceInit
    /\ lsSubscribers = <<>>
    /\ watchId = 0
    /\ watches = {}
    /\ nextWatchId = 1
    /\ pendingPositions = 0
    /\ astroQueue = <<>>
    /\ ttCurrentTime = now
    /\ ttIsLiveMode = TRUE
    /\ ttInterval = FALSE
    /\ ttEffectFor = "none"
    /\ lastTick = <<>>
    /\ geoFailed = FALSE
    /\ returned = [name |-> "none"]
    /\ ulState = LocationServiceInit
    /\ ulError = <<>>
    /\ ulIsLoading = FALSE
    /\ ulCalled = "none"
    /\ ulPending = <<>>
    /\ uaUtcTime = 0
    /\ uaLocation = FALSE
    /\ uaLastUpdated = <<>>
    /\ uaError = <<>>
    /\ uaEclipsesAt = <<>>

\* a TimeService that has ticked, been given an offset and a longitude
InitSid ==
    /\ component = "sidereal"
    /\ tsTimer = TRUE
    /\ geoSupported = TRUE
    /\ nodeEnv = "production"
    /\ now = 0
    /\ \E t \in SiderealInstants, m \in Offsets, l \in SiderealLongitudes :
           tsState = [currentTime |-> t, timezone |-> "UTC", offset |-> m, longitude |-> l,
                      latitude |-> 0]
    /\ tsSubscribers = <<>>
    /\ subStatus = [c \in Callbacks |-> "never"]
    /\ lastOp = Op("init", "ok")
    /\ writes = <<>>
    /\ calls = <<>>
    /\ lsState = LocationServiceInit
    /\ lsSubscribers = <<>>
    /\ watchId = 0
    /\ watches = {}
    /\ nextWatchId = 1
    /\ pendingPositions = 0
    /\ astroQueue = <<>>
    /\ ttCurrentTime = now
    /\ ttIsLiveMode = TRUE
    /\ ttInterval = FALSE
    /\ ttEffectFor = "none"
    /\ lastTick = <<>>
    /\ geoFailed = FALSE
    /\ returned = [name |-> "none"]
    /\ ulState = LocationServiceInit
    /\ ulError = <<>>
    /\ ulIsLoading = FALSE
    /\ ulCalled = "none"
    /\ ulPending = <<>>
    /\ uaUtcTime = 0
    /\ uaLocation = FALSE
    /\ uaLastUpdated = <<>>
    /\ uaError = <<>>
    /\ uaEclipsesAt = <<>>

Init == InitTime \/ InitLoc \/ InitTT

TimeNext ==
    \/ Time_tick
    \/ ClockAdvance
    \/ \E tz \in Timezones : Time_setTimezone(tz)
    \/ \E m \in Offsets : Time_setOffset(m)
    \/ \E l \in TimeLocations : Time_setLocation(l[1], l[2])
    \/ \E c \in Callbacks : Time_subscribe(c)
    \/ \E c \in Callbacks : Time_unsubscribe(c)
    \/ Time_destroy

LocNext ==
    \/ \E l \in LocationInputs : Loc_setLocation(l[1], l[2], l[3])
    \/ Loc_astronomicalUpdate
    \/ Loc_getCurrentLocation
    \/ \E f \in GpsFixes : Loc_positionSuccess(f)
    \/ \E e \in ProviderErrors : Loc_positionError(e)
    \/ Loc_enableGPS
    \/ \E id \in 1..MaxWatches, f \in GpsFixes : Loc_watchSuccess(id, f)
    \/ \E id \in 1..MaxWatches, e \in ProviderErrors : Loc_watchError(id, e)
    \/ Loc_disableGPS
    \/ \E c \in Callbacks : Loc_subscribe(c)
    \/ \E c \in Callbacks : Loc_unsubscribe(c)
    \/ Loc_destroy
    \/ Loc_getAstronomicalPosition

ULNext ==
    \/ \E l \in LocationInputs : UL_setLocation(l[1], l[2], l[3])
    \/ UL_astronomicalUpdate
    \/ UL_refreshAstronomicalPosition
    \/ UL_settle
    \/ UL_getCurrentLocation
    \/ \E f \in GpsFixes : UL_positionSuccess(f)
    \/ \E e \in ProviderErrors : UL_positionError(e)
    \/ Loc_getAstronomicalPosition

AstNext ==
    \/ \E time \in StartDays, phase \in Phases : Ast_getMoonPhase(time, phase)
    \/ \E fails \in FailureSets(SetupCalls \cup PlanetCalls) : Ast_getPlanetaryPositions(fails)
    \/ \E fails \in FailureSets(SetupCalls \cup SunMoonFields) : Ast_getSunMoonTimes(fails)
    \/ \E solar \in SUBSET SolarDays, lunar \in SUBSET LunarDays, fails \in EclipseFailures,
          startTime \in StartDays, daysToSearch \in Windows :
            Ast_getUpcomingEclipses(solar, lunar, fails, startTime, daysToSearch)

BcNext == \E behaviour \in [Callbacks -> Behaviours] : Bc_notifySubscribers(behaviour)

SidNext == \E gst \in GreenwichSiderealTimes : Sid_getSiderealTime(gst)

UANext ==
    \/ \E h \in HourSteps : UA_utcTime(h)
    \/ UA_location
    \/ \E throws \in BOOLEAN : UA_calculateAstronomicalData(throws)

TTNext ==
    \/ \E t \in Instants : TT_setTime(t)
    \/ \E t \in Instants : TT_jumpToTime(t)
    \/ TT_resetToNow
    \/ TT_tick
    \/ TT_effect
    \/ ClockAdvance

GeoNext ==
    /\ lastOp.name = "init"
    /\ \E lat \in GeoLatitudes, lng \in GeoLongitudes : Geo_setLocation(lat, lng, 0)

Next == TimeNext \/ LocNext \/ TTNext

Spec == Init /\ [][Next]_vars

SpecTime == InitTime /\ [][TimeNext]_vars

SpecLoc == InitLoc /\ [][LocNext]_vars

SpecTT == InitTT /\ [][TTNext]_vars

SpecGeo == InitGeo /\ [][GeoNext]_vars

SpecUL == InitUL /\ [][ULNext]_vars

SpecAst == InitAst /\ [][AstNext]_vars

SpecBc == InitBc /\ [][BcNext]_vars

SpecSid == InitSid /\ [][SidNext]_vars

SpecUA == InitUA /\ [][UANext]_vars

\* ---------------------------------------------------------------- properties
\* the service a behaviour drives
State == IF component = "time" THEN tsState ELSE lsState

Subs == IF component = "time" THEN tsSubscribers ELSE lsSubscribers

\* one invocation per subscriber, in subscription order, each with st
InOrder(subs, st) == [i \in 1..Len(subs) |-> [cb |-> subs[i], st |-> st]]

\* the broadcasts of a handler that stored the states ws one after the other
Broadcasts(subs, ws) ==
    [n \in 1..(Len(ws) * Len(subs)) |->
        [cb |-> subs[((n - 1) % Len(subs)) + 1], st |-> ws[((n - 1) \div Len(subs)) + 1]]]

\* the operations the services list as mutations
MutationNames ==
    {"tick", "setOffset", "setLocation", "setTimezone", "positionSuccess", "watchSuccess",
     "watchError", "disableGPS", "astronomicalUpdate"}

Mutated == writes' # <<>> \/ State' # State

C2_UnsubscribedNeverInvoked ==
    [][ lastOp'.name # "subscribe" =>
            \A i \in 1..Len(calls') : subStatus[calls'[i].cb] # "removed" ]_vars

C2_Witness ==
    /\ component = "location"
    /\ lastOp = Op("setLocation", "ok")
    /\ subStatus["cbA"] = "removed"
    /\ subStatus["cbB"] = "subscribed"
    /\ Len(calls) = 1
    /\ calls[1].cb = "cbB"

\* C3 as stated: every successful mutation causes exactly one broadcast, to all current
\* subscribers in subscription order, each receiving the post-mutation state.
C3_OneBroadcastPerMutation ==
    [][ (component \in {"time", "location"} /\ lastOp'.name \in MutationNames
            /\ lastOp'.result # "threw") =>
            calls' = InOrder(Subs, State') ]_vars

\* C3 amended: every state replacement causes exactly one broadcast, to all current subscribers
\* in subscription order, each receiving the state just stored; every mutation makes one
\* replacement, except the watch fix that arrives while isGPSEnabled is false, which makes
\* two (the location, then isGPSEnabled = true) and so broadcasts twice, first the state that
\* has the new location and isGPSEnabled still false, then the final state.
C3_OneBroadcastPerStateReplacement ==
    [][ (component \in {"time", "location"} /\ lastOp'.name \in MutationNames
            /\ lastOp'.result # "threw") =>
            /\ calls' = Broadcasts(Subs, writes')
            /\ writes'[Len(writes')] = State'
            /\ IF lastOp'.name = "watchSuccess" /\ ~lsState.isGPSEnabled
               THEN /\ Len(writes') = 2
                    /\ writes'[1] = [State' EXCEPT !.isGPSEnabled = FALSE]
                    /\ State'.isGPSEnabled
               ELSE Len(writes') = 1 ]_vars

C3_Witness ==
    /\ component = "location"
    /\ lastOp.name = "watchSuccess"
    /\ Len(lsSubscribers) = 2
    /\ lsSubscribers[1] # lsSubscribers[2]
    /\ Len(writes) = 2
    /\ Len(calls) = 4

\* the hour nearest to the meridian, ties to the east: offset = 60 h with
\* -1/2 <= lng/15 - h < 1/2
NearestHourOffset(lng, offset) ==
    \E h \in -12..12 :
        /\ offset = 60 * h
        /\ 2 * (lng - 15 * Scale * h) >= -15 * Scale
        /\ 2 * (lng - 15 * Scale * h) < 15 * Scale

ConsistentLocation(st) ==
    \/ st.currentLocation = Null /\ st.coordinateSystem = Null /\ st.timezone = Null
    \/ /\ st.currentLocation # Null /\ st.coordinateSystem # Null /\ st.timezone # Null
       /\ st.coordinateSystem.latitude = st.currentLocation.latitude
       /\ st.coordinateSystem.longitude = st.currentLocation.longitude
       /\ st.coordinateSystem.altitude = st.currentLocation.altitude
       /\ NearestHourOffset(st.currentLocation.longitude, st.timezone.offset)

\* C4: in every state a LocationService subscriber receives, currentLocation, coordinateSystem
\* and timezone are all null or all derived from the same (latitude, longitude, altitude).
C4_SubscribersSeeConsistentLocation ==
    component = "location" => \A i \in 1..Len(calls) : ConsistentLocation(calls[i].st)

C4_Witness ==
    /\ component = "location"
    /\ lastOp.name = "watchSuccess"
    /\ Len(calls) = 2
    /\ calls[1].st.currentLocation # Null
    /\ calls[1].st.currentLocation.longitude = 1512093
    /\ calls[1].st.timezone.offset = 600

OutOfRange(l) ==
    \/ l[1] < -90 * Scale
    \/ l[1] > 90 * Scale
    \/ l[2] < -180 * Scale
    \/ l[2] > 180 * Scale

\* C5: setLocation with latitude outside [-90,90] or longitude outside [-180,180] throws; the
\* stored location, frame and timezone are unchanged and no subscriber is notified.
C5_OutOfRangeThrowsAndChangesNothing ==
    [][ \A l \in LocationInputs :
            (Loc_setLocation(l[1], l[2], l[3]) /\ OutOfRange(l)) =>
                /\ lastOp'.result = "threw"
                /\ lsState' = lsState
                /\ calls' = <<>> ]_vars

C5_Witness ==
    /\ component = "location"
    /\ lastOp = Op("setLocation", "threw")
    /\ lsState.currentLocation # Null
    /\ lsSubscribers # <<>>
    /\ calls = <<>>

\* C6: for every accepted (lat, lon) the UTM hemisphere is 'N' exactly when lat >= 0 and the
\* zone lies in 1..60.
C6_HemisphereAndZoneRange ==
    (component = "geodesy" /\ lsState.coordinateSystem # Null) =>
        /\ (lsState.coordinateSystem.utm.hemisphere = "N") <=> (lsState.currentLocation.latitude >= 0)
        /\ lsState.coordinateSystem.utm.zone \in 1..60

\* C7: for every accepted longitude the stored timezone offset is round(lon/15)*60 minutes, a
\* multiple of 60 inside [-720, 840]; -74.0060 gives -300 and 139.6503 gives +540.
C7_TimezoneOffsetIsNearestHour ==
    (component = "geodesy" /\ lsState.timezone # Null) =>
        /\ NearestHourOffset(lsState.currentLocation.longitude, lsState.timezone.offset)
        /\ lsState.timezone.offset % 60 = 0
        /\ lsState.timezone.offset >= -720
        /\ lsState.timezone.offset <= 840
        /\ lsState.currentLocation.longitude = -740060 => lsState.timezone.offset = -300
        /\ lsState.currentLocation.longitude = 1396503 => lsState.timezone.offset = 540

C7_Witness ==
    /\ component = "geodesy"
    /\ lastOp = Op("setLocation", "ok")
    /\ lsState.currentLocation.longitude = 75000
    /\ lsState.timezone.offset = 60

\* C8: the controller starts in live mode; setTime(t) and jumpToTime(t) leave it in time-travel
\* mode with current instant t; resetToNow leaves it in live mode; nothing else changes the mode.
C8_ModeTransitions ==
    /\ (component = "timeTravel" => ttIsLiveMode)
    /\ [][ /\ \A t \in Instants :
                  (TT_setTime(t) \/ TT_jumpToTime(t)) => (~ttIsLiveMode' /\ ttCurrentTime' = t)
           /\ TT_resetToNow => ttIsLiveMode'
           /\ lastOp'.name \notin {"setTime", "jumpToTime", "resetToNow"} =>
                  ttIsLiveMode' = ttIsLiveMode ]_vars

C8_Witness ==
    /\ component = "timeTravel"
    /\ lastOp.name = "setTime"
    /\ ~ttIsLiveMode
    /\ ttEffectFor = "timeTravel"
    /\ ttCurrentTime # now

\* C9: in time-travel mode the current instant stays the value last passed to
\* setTime/jumpToTime; no timer tick changes it.
C9_PinnedInstantNeverTicks ==
    [][ (component = "timeTravel" /\ ~ttIsLiveMode /\ ~ttIsLiveMode'
            /\ lastOp'.name \notin {"setTime", "jumpToTime"}) =>
            ttCurrentTime' = ttCurrentTime ]_vars

\* C10: in live mode the instant stored by a clock tick is never earlier than the instant
\* stored by the tick before it.
C10_TicksNeverGoBack ==
    Len(lastTick) = 2 => lastTick[2] >= lastTick[1]

C10_Witness ==
    /\ component = "timeTravel"
    /\ lastOp.name = "tick"
    /\ ttIsLiveMode
    /\ Len(lastTick) = 2
    /\ lastTick[2] > lastTick[1]
    /\ ttCurrentTime = lastTick[2]

Place(st) == <<st.currentLocation, st.coordinateSystem, st.timezone>>

\* C12: a geolocation answer (one-shot position or watch fix) that is delivered right after
\* destroy() or right after an unsubscribe, hence was requested before it, leaves the stored
\* location, frame and timezone unchanged.
C12_AnswerAfterTeardownChangesNothing ==
    [][ (component = "location" /\ lastOp.name \in {"destroy", "unsubscribe"}
            /\ lastOp'.name \in {"positionSuccess", "watchSuccess"}) =>
            Place(lsState') = Place(lsState) ]_vars

\* C13: when disableGPS() returns isGPSEnabled is false and no watch started by enableGPS() is
\* registered any more, also after several enableGPS() calls; a fix delivered after it does not
\* change the location.
C13_DisableGPSCancelsEveryWatch ==
    [][ /\ lastOp'.name = "disableGPS" => (~lsState'.isGPSEnabled /\ watches' = {})
        /\ (component = "location" /\ lastOp.name = "disableGPS" /\ lastOp'.name = "watchSuccess") =>
               Place(lsState') = Place(lsState) ]_vars

\* the step stored (latitude, longitude, altitude) and the frame and timezone derived from it
Applied(latitude, longitude, altitude) ==
    /\ lsState'.currentLocation =
           [latitude |-> latitude, longitude |-> longitude, altitude |-> altitude]
    /\ ConsistentLocation(lsState')

\* C14: every accepted setLocation call and every delivered geolocation answer, in the order
\* in which they are applied, replaces location, frame and timezone by its own, whatever was
\* stored or requested before; no other operation changes them.
C14_LastAppliedCallWins ==
    [][ component = "location" =>
          /\ \A l \in LocationInputs :
                 (Loc_setLocation(l[1], l[2], l[3]) /\ ~OutOfRange(l)) => Applied(l[1], l[2], l[3])
          /\ \A f \in GpsFixes :
                 (Loc_positionSuccess(f) \/ \E id \in 1..MaxWatches : Loc_watchSuccess(id, f)) =>
                     Applied(f.latitude, f.longitude, altitudeOrZero(f))
          /\ lastOp'.name \notin {"setLocation", "positionSuccess", "watchSuccess"} =>
                 Place(lsState') = Place(lsState)
      ]_vars

C14_Witness ==
    /\ component = "location"
    /\ lastOp.name = "positionSuccess"
    /\ pendingPositions = 0
    /\ lsState.currentLocation # Null
    /\ lsState.currentLocation.latitude = 407128
    /\ lsState.astronomicalPosition # Null
    /\ lsState.astronomicalPosition.observer.latitude = -338688

\* C15: while the service has no location, getAstronomicalPosition rejects with
\* 'Location not set', stores nothing and notifies nobody, and the hook's
\* refreshAstronomicalPosition sets its error to that message without calling the service.
C15_NoObserverRejects ==
    [][ /\ (Loc_getAstronomicalPosition /\ lsState.currentLocation = Null) =>
               /\ lastOp'.result = "Location not set"
               /\ lsState' = lsState
               /\ calls' = <<>>
               /\ writes' = <<>>
        /\ (UL_refreshAstronomicalPosition /\ lsState.currentLocation = Null) =>
               /\ ulError' = <<"Location not set">>
               /\ ulCalled' = "none"
               /\ ulPending' = ulPending
               /\ lsState' = lsState
               /\ calls' = <<>>
      ]_vars

C15_Witness ==
    /\ component = "useLocation"
    /\ lastOp.name = "refreshAstronomicalPosition"
    /\ lsState.currentLocation = Null
    /\ ulError = <<"Location not set">>
    /\ ulCalled = "none"
    /\ ~ulIsLoading

\* C16: when geolocation is unsupported, getCurrentLocation and enableGPS reject with
\* 'Geolocation is not supported by this browser'; when the provider reports an error they
\* reject with 'Geolocation error: <message>' and 'GPS error: <message>'; in each case the
\* location, frame and timezone stay as they were; an answer that arrives after such a failure
\* sets the location as usual.
C16_GeolocationFailuresRejectAndKeepLocation ==
    [][ component = "location" =>
          /\ ((Loc_getCurrentLocation \/ Loc_enableGPS) /\ ~geoSupported) =>
                 /\ lastOp'.result = "Geolocation is not supported by this browser"
                 /\ lsState' = lsState
                 /\ calls' = <<>>
          /\ \A e \in ProviderErrors :
                 /\ Loc_positionError(e) =>
                        /\ lastOp'.result = "Geolocation error: " \o e
                        /\ lsState' = lsState
                 /\ (\E id \in 1..MaxWatches : Loc_watchError(id, e)) =>
                        /\ lastOp'.result = "GPS error: " \o e
                        /\ Place(lsState') = Place(lsState)
          /\ \A f \in GpsFixes :
                 (geoFailed /\ (Loc_positionSuccess(f) \/ \E id \in 1..MaxWatches : Loc_watchSuccess(id, f))) =>
                     Applied(f.latitude, f.longitude, altitudeOrZero(f))
      ]_vars

C16_Witness ==
    /\ component = "location"
    /\ geoFailed
    /\ lastOp = Op("positionSuccess", "resolved")
    /\ watches = {}
    /\ nextWatchId = 1
    /\ lsState.currentLocation # Null
    /\ lsState.currentLocation.latitude = -338688

\* C17: getPlanetaryPositions and getSunMoonTimes never throw, whichever ephemeris calls fail:
\* the planets whose computation failed, and only they, are left out of the fixed order, and the
\* fields whose search failed, and only they, are null.
C17_PlanetsAndSunMoonNeverThrow ==
    /\ (component = "astronomy" /\ returned.name = "getPlanetaryPositions") =>
           /\ ~returned.threw
           /\ returned.value = SelectSeq(PLANETS, LAMBDA q : q \notin returned.fails)
    /\ (component = "astronomy" /\ returned.name = "getSunMoonTimes") =>
           /\ ~returned.threw
           /\ \A f \in SunMoonFields : (returned.value[f] = <<>>) <=> (f \in returned.fails)

\* the call whose result is in `returned` is a getUpcomingEclipses that came back
EclipsesReturned ==
    component = "astronomy" /\ returned.name = "getUpcomingEclipses" /\ ~returned.threw

\* C18: the list getUpcomingEclipses returns is strictly ascending by peak instant, solar and
\* lunar events together, and every element is tagged 'solar' or 'lunar'.
C18_EclipsesStrictlyAscending ==
    EclipsesReturned =>
        /\ \A i \in 1..(Len(returned.value) - 1) :
               returned.value[i].date < returned.value[i + 1].date
        /\ \A i \in 1..Len(returned.value) : returned.value[i].type \in {"solar", "lunar"}

C18_Witness ==
    /\ EclipsesReturned
    /\ Len(returned.value) = 4
    /\ returned.value[1].type = "lunar"
    /\ returned.value[2].type = "solar"
    /\ returned.value[3].type = "lunar"
    /\ returned.value[4].type = "solar"

\* the eclipse days of a type inside the window of the call in `returned`
InWindow(days) ==
    {q \in days : q >= returned.startTime /\ q < returned.startTime + returned.daysToSearch}

\* the instants at which the loop over these days calls the search
StepTimes(days) ==
    {t \in {returned.startTime} \cup {q + 1 : q \in InWindow(days)} :
        t < returned.startTime + returned.daysToSearch}

\* the peak days of the returned events of a type
Returned(type) ==
    {returned.value[i].date : i \in {j \in 1..Len(returned.value) : returned.value[j].type = type}}

\* C19: when the search call of one eclipse type throws at some step, no error reaches the
\* caller, the events of that type found before the step are returned and none after it, and
\* the events of the other type are those of a complete search from the start instant.
C19_FailedSearchStopsOneTypeOnly ==
    (component = "astronomy" /\ returned.name = "getUpcomingEclipses") =>
        /\ \A t \in StepTimes(returned.solar) :
               returned.fails = {<<"SearchGlobalSolarEclipse", t>>} =>
                   /\ ~returned.threw
                   /\ Returned("solar") = {q \in InWindow(returned.solar) : q < t}
                   /\ Returned("lunar") = InWindow(returned.lunar)
        /\ \A t \in StepTimes(returned.lunar) :
               returned.fails = {<<"SearchLunarEclipse", t>>} =>
                   /\ ~returned.threw
                   /\ Returned("lunar") = {q \in InWindow(returned.lunar) : q < t}
                   /\ Returned("solar") = InWindow(returned.solar)

C19_Witness ==
    /\ component = "astronomy"
    /\ returned.name = "getUpcomingEclipses"
    /\ \E t \in StepTimes(returned.solar) : returned.fails = {<<"SearchGlobalSolarEclipse", t>>}
    /\ Returned("solar") # {}
    /\ Returned("solar") # InWindow(returned.solar)
    /\ Cardinality(Returned("lunar")) >= 2

\* C20: TimeService.setTimezone(name) changes the timezone label only: the stored instant, the
\* offset, the latitude and the longitude are unchanged, getCurrentTime and getUTCTime denote
\* the same instant as before and as each other, and every subscriber is called with a state
\* that carries the new label.
C20_SetTimezoneChangesLabelOnly ==
    [][ \A tz \in Timezones :
            Time_setTimezone(tz) =>
                /\ tsState'.timezone = tz
                /\ tsState'.currentTime = tsState.currentTime
                /\ tsState'.offset = tsState.offset
                /\ tsState'.latitude = tsState.latitude
                /\ tsState'.longitude = tsState.longitude
                /\ Time_getCurrentTime(tsState') = Time_getCurrentTime(tsState)
                /\ Time_getUTCTime(tsState') = Time_getUTCTime(tsState)
                /\ Time_getUTCTime(tsState').ts = Time_getCurrentTime(tsState')
                /\ Len(calls') = Len(tsSubscribers)
                /\ \A i \in 1..Len(tsSubscribers) :
                       /\ calls'[i].cb = tsSubscribers[i]
                       /\ calls'[i].st = tsState'
                       /\ calls'[i].st.timezone = tz
      ]_vars

C20_Witness ==
    /\ component = "time"
    /\ lastOp.name = "setTimezone"
    /\ tsState.timezone = "America/New_York"
    /\ tsState.offset # 0
    /\ tsState.longitude # 0
    /\ tsState.currentTime # 0
    /\ Len(tsSubscribers) = 2
    /\ Len(calls) = 2
    /\ calls[2].st.timezone = "America/New_York"

\* C21: getCurrentTime() is the stored instant plus the manual offset in minutes; setOffset(m)
\* replaces the offset (a second setOffset(m) changes nothing), so from offset 0 the reading moves
\* by exactly m minutes; and a tick keeps the offset, the reading after it being the wall clock
\* plus the offset.
C21_OffsetReplacedAndKeptAcrossTicks ==
    [][ /\ \A m \in Offsets :
               Time_setOffset(m) =>
                   /\ tsState'.offset = m
                   /\ tsState'.currentTime = tsState.currentTime
                   /\ Time_getCurrentTime(tsState') = tsState.currentTime + 60 * m
                   /\ Time_withOffset(tsState', m) = tsState'
                   /\ tsState.offset = 0 =>
                          Time_getCurrentTime(tsState') - Time_getCurrentTime(tsState) = 60 * m
        /\ Time_tick =>
               /\ tsState'.offset = tsState.offset
               /\ Time_getCurrentTime(tsState') = now + 60 * tsState.offset
      ]_vars

C21_Witness ==
    /\ component = "time"
    /\ lastOp.name = "tick"
    /\ tsState.offset = 30
    /\ tsState.currentTime = MaxNow
    /\ Time_getCurrentTime(tsState) = MaxNow + 1800

\* C22: with the observer fixed, a run of calculateAstronomicalData that takes place more than
\* 24 hours after the eclipse list was last computed computes it again, however often the
\* other data were refreshed in between.
C22_EclipsesRecomputedAfterADay ==
    [][ ( /\ UA_calculateAstronomicalData(FALSE)
          /\ uaLocation
          /\ uaEclipsesAt # <<>>
          /\ uaUtcTime - uaEclipsesAt[1] > EclipseRescanHours )
        => uaEclipsesAt' = <<uaUtcTime>>
      ]_vars

\* the asynchronous operations of the hook that have been started and have not finished:
\* requests the provider has not answered, and handlers whose awaited promise has settled but
\* whose catch/finally has not run yet
PendingOperations == pendingPositions + Len(ulPending)

\* C23: in the useLocation hook isLoading is true exactly while at least one of its asynchronous
\* operations is pending, however the operations overlap and whether they resolve or reject.
C23_LoadingWhilePending ==
    component = "useLocation" => (ulIsLoading <=> PendingOperations > 0)

\* C24: for every longitude and every Greenwich sidereal time the ephemeris returns,
\* getSiderealTime returns the start of the current day plus GST + longitude / 15 hours reduced
\* into [0, 24), also when that sum is negative or 24 or more.
C24_SiderealHoursNormalized ==
    (component = "sidereal" /\ returned.name = "getSiderealTime") =>
        /\ returned.value.hours >= 0
        /\ returned.value.hours < DayUnits
        /\ \E k \in -4..4 :
               returned.value.hours = returned.gst + tsState.longitude + k * DayUnits
        /\ returned.value.today <= Time_getCurrentTime(tsState)
        /\ Time_getCurrentTime(tsState) < returned.value.today + DaySeconds
        /\ returned.value.today % DaySeconds = 0

C24_Witness ==
    /\ component = "sidereal"
    /\ returned.name = "getSiderealTime"
    /\ returned.gst + tsState.longitude < 0 - DayUnits
    /\ returned.value.hours > 0
    /\ returned.value.today = DaySeconds
    /\ tsState.currentTime < DaySeconds

\* the integer nearest to 8 * phase, halves upwards
NearestEighth(phase) ==
    CHOOSE k \in 0..8 :
        2 * k * PhaseUnits <= 16 * phase + PhaseUnits
            /\ 16 * phase + PhaseUnits < 2 * (k + 1) * PhaseUnits

\* C25: for every phase p in [0, 1) getMoonPhase names the phase by the bucket round(8p) mod 8
\* over the eight names in cycle order: the index is in 0..7, a phase less than 1/16 from 0 or
\* from 1 is 'New Moon', a phase less than 1/16 from 0.5 is 'Full Moon', and the name is a
\* function of the phase alone.
C25_MoonPhaseNameByBucket ==
    (component = "astronomy" /\ returned.name = "getMoonPhase") =>
        LET phase == returned.value.phase
        IN  /\ returned.index \in 0..7
            /\ returned.index = NearestEighth(phase) % 8
            /\ returned.value.phaseName = MOON_PHASE_NAMES[(NearestEighth(phase) % 8) + 1]
            /\ (16 * phase < PhaseUnits \/ 16 * (PhaseUnits - phase) < PhaseUnits) =>
                   returned.value.phaseName = "New Moon"
            /\ (7 * PhaseUnits < 16 * phase /\ 16 * phase < 9 * PhaseUnits) =>
                   returned.value.phaseName = "Full Moon"
            /\ returned.value = getMoonPhase(0, phase)

C25_Witness ==
    /\ component = "astronomy"
    /\ returned.name = "getMoonPhase"
    /\ 16 * returned.value.phase > 15 * PhaseUnits
    /\ returned.time = 1
    /\ returned.index = 0
    /\ returned.value.phaseName = "New Moon"

\* the cursor of a search loop only moves forward, each time to the day after an eclipse of
\* the loop's type that lies at or after the cursor and inside the window
CursorAdvances(cursors, peaks) ==
    /\ Len(cursors) <= returned.daysToSearch + 1
    /\ \A i \in 2..Len(cursors) :
           /\ cursors[i] > cursors[i - 1]
           /\ cursors[i] - 1 \in peaks
           /\ cursors[i] - 1 >= cursors[i - 1]
           /\ cursors[i] - 1 < returned.startTime + returned.daysToSearch

\* C26: getUpcomingEclipses terminates for every start instant and window length: an iteration
\* of either search loop ends the loop or moves the cursor to one day after the peak found, so
\* the cursor strictly increases until it passes the end of the window; and every returned
\* event has its peak before start + daysToSearch.
C26_EclipseSearchTerminatesInsideWindow ==
    EclipsesReturned =>
        /\ CursorAdvances(returned.solarCursors, returned.solar)
        /\ CursorAdvances(returned.lunarCursors, returned.lunar)
        /\ \A i \in 1..Len(returned.value) :
               /\ returned.value[i].date < returned.startTime + returned.daysToSearch
               /\ returned.value[i].date >= returned.startTime

C26_Witness ==
    /\ EclipsesReturned
    /\ returned.startTime = 1
    /\ returned.daysToSearch = 3
    /\ returned.solarCursors = <<1, 2, 4>>
    /\ returned.lunarCursors = <<1, 3>>
    /\ 4 \in returned.lunar
    /\ Len(returned.value) = 3

\* C27: isGPSEnabled is true only while a watch started by enableGPS is registered; after a
\* watch has reported an error isGPSEnabled is false and that watch is no longer registered, and
\* a fix delivered afterwards neither changes the location nor sets isGPSEnabled again.
C27_GPSEnabledOnlyWhileWatching ==
    [][ /\ (component = "location" /\ lsState'.isGPSEnabled) => watches' # {}
        /\ \A id \in 1..MaxWatches, e \in ProviderErrors :
               Loc_watchError(id, e) => (~lsState'.isGPSEnabled /\ id \notin watches')
        /\ (component = "location" /\ lastOp.name = "watchError"
                /\ lastOp'.name = "watchSuccess") =>
               (Place(lsState') = Place(lsState) /\ ~lsState'.isGPSEnabled)
      ]_vars

\* C28: when setLocation is called again before the astronomical update of an earlier call has
\* been applied, then once no update is pending the stored astronomicalPosition is the one
\* computed for the current location, whatever the interleaving of calls and updates; outside
\* tests a stored location then has its position.
C28_PositionIsForLatestLocation ==
    (component = "location" /\ astroQueue = <<>>) =>
        /\ lsState.astronomicalPosition # Null =>
               lsState.astronomicalPosition = astronomicalPositionFor(lsState)
        /\ (nodeEnv # "test" /\ lsState.currentLocation # Null) =>
               lsState.astronomicalPosition # Null

C28_Witness ==
    /\ component = "location"
    /\ astroQueue = <<>>
    /\ lastOp.name = "astronomicalUpdate"
    /\ Len(writes) = 1
    /\ lsState.currentLocation # Null
    /\ lsState.currentLocation.latitude = -338688
    /\ lsState.astronomicalPosition = astronomicalPositionFor(lsState)

\* how many times callback c is registered in subs
Registrations(c, subs) == Cardinality({i \in 1..Len(subs) : subs[i] = c})

\* how many of the invocations cs are of callback c
Invocations(c, cs) == Cardinality({i \in 1..Len(cs) : cs[i].cb = c})

\* C30: subscribing a callback that is already subscribed registers it a second time, so each
\* broadcast invokes it twice; either unsubscribe function removes both registrations, after
\* which no broadcast invokes it.
C30_DoubleSubscriptionDoubleCalls ==
    [][ \A c \in Callbacks :
            /\ ((Time_subscribe(c) \/ Loc_subscribe(c)) /\ Registrations(c, Subs) = 1) =>
                   Registrations(c, Subs') = 2
            /\ (Time_unsubscribe(c) \/ Loc_unsubscribe(c)) => Registrations(c, Subs') = 0
            /\ (component \in {"time", "location"} /\ lastOp'.name # "subscribe") =>
                   Invocations(c, calls') = Registrations(c, Subs) * Len(writes')
      ]_vars

C30_Witness ==
    /\ component = "time"
    /\ tsSubscribers = <<"cbA", "cbA">>
    /\ lastOp.name = "setOffset"
    /\ Len(writes) = 1
    /\ Len(calls) = 2
    /\ calls[1].cb = "cbA"
    /\ calls[2].cb = "cbA"

\* the callbacks the broadcast itself invoked, in order
BroadcastCalls ==
    SelectSeq(returned.calls, LAMBDA x : x.by = "broadcast")

\* C29: a broadcast is delivered to exactly the callbacks subscribed when it started, each
\* registration once and in order: a callback unsubscribed by another callback during the
\* broadcast is still invoked in it, and a callback subscribed during the broadcast is not
\* invoked by it and only gets the immediate call of subscribe.
C29_BroadcastUsesSubscribersAtStart ==
    (component = "broadcast" /\ returned.name = "notifySubscribers") =>
        /\ Len(BroadcastCalls) = Len(returned.subscribers)
        /\ \A i \in 1..Len(returned.subscribers) :
               BroadcastCalls[i].cb = returned.subscribers[i]
        /\ \A i \in 1..Len(returned.calls) :
               returned.calls[i].cb = NewCallback => returned.calls[i].by = "subscribe"

C29_Witness ==
    /\ component = "broadcast"
    /\ returned.name = "notifySubscribers"
    /\ returned.subscribers = <<"cbA", "cbB">>
    /\ returned.behaviour["cbA"] = [do |-> "unsubscribe", cb |-> "cbB"]
    /\ returned.behaviour["cbB"] = [do |-> "subscribe", cb |-> NewCallback]
    /\ Len(returned.calls) = 3
    /\ returned.calls[2] = [cb |-> "cbB", by |-> "broadcast"]
    /\ returned.calls[3] = [cb |-> NewCallback, by |-> "subscribe"]
    /\ tsSubscribers = <<"cbA", NewCallback>>

====
